---- MODULE Spec2Model ----
(***************************************************************************)
(* Verification model of the two provisioning scripts of ekomerce-iac:     *)
(*   scripts/letsencrypt_wildcard_setup.py  (main and its six phases)      *)
(*   scripts/github_repo_clone.py           (clone_repository,             *)
(*                                           _fresh_clone, backup rotation)*)
(* External commands and filesystem calls are the environment: each one    *)
(* is a nondeterministic choice over the outcomes the code distinguishes.  *)
(***************************************************************************)
EXTENDS Integers, Sequences, FiniteSets, TLC

VARIABLES
    \* ---- letsencrypt_wildcard_setup.py ----
    lePc,         \* position in main: "start","root_check","loop","in_phase","returned",
                  \* "summary","exited"
    leRoot,       \* os.geteuid() == 0
    leIdx,        \* index of the phase the for loop of main is at (1..6)
    leStarted,    \* sequence of phase names main has called, in call order
    leRet,        \* leRet[i]: what phase i gave back: "none","True","False","raised"
    leSuccess,    \* main's local variable success
    leResult,     \* what main returned: "none","True","False","raised"
    leExit,       \* process exit status (-1 while running)
    leCmds,       \* external commands run through run_command
    leWritten,    \* files written by the phases
    leCredsMode,  \* permission bits of credentials.ini (0 = file absent)
    leSkipCert,   \* SKIP_CERT_GENERATION == 'true'
    leCertFiles,  \* fullchain.pem and privkey.pem both exist
    \* ---- github_repo_clone.py: clone_repository and its helpers ----
    crPc,          \* position in clone_repository / _fresh_clone ("idle" between runs)
    force_clone,   \* --force-clone of the current run
    skip_pull,     \* --skip-pull of the current run
    SKIP_CLONE,    \* environment variable SKIP_CLONE is 'true', 'yes' or '1'
    max_backups,   \* --max-backups
    parentExists,  \* os.path.exists(os.path.dirname(dest_dir))
    destKind,      \* dest_dir is "absent", a "file", an "empty" or a "nonempty" directory
    destGit,       \* dest_dir/.git exists
    destRemotes,   \* what `git remote -v` prints in dest_dir: "url" (contains repo_url),
                   \* "name" (contains repo_name but not repo_url), "other", "none"
    destMtime,     \* modification time of the directory dest_dir
    displaced,     \* the sibling directories <dest_dir>_backup_* and <dest_dir>_old_*
    now,           \* int(time.time())
    runs,          \* number of clone_repository runs started (the run's process id)
    crResult,      \* what the last run returned: "none", "True", "False"
    ran,           \* git commands run in the current run
    gitFailed,     \* some git command of the current run did not exit 0
    attempt,       \* fetch attempts _fresh_clone has made in the current run
    fetch_rc,      \* outcome of the last of them: "none","ok","nonzero","exception","timeout"
    sleeps,        \* number of time.sleep(RETRY_DELAY) calls in the current run
    pull_rc,       \* outcome of git pull --ff-only in the current run: "none","ok","failed"
    reset_code,    \* outcome of git reset --hard in the current run: "none","ok","failed"
    current_branch,\* clone_repository's local variable current_branch
    freshFrom,     \* where _fresh_clone was called from in the current run ("none" if not)
    movedThisRun,  \* the displaced directory the current run created ({} if none)
    osFailed,      \* some filesystem call (os.makedirs, shutil.move, os.remove,
                   \* shutil.rmtree) has raised, in this run or an earlier one
    startKind,     \* destKind when the current run started
    startGit,      \* destGit when the current run started
    startRemotes,  \* destRemotes when the current run started
    startParent,   \* parentExists when the current run started
    rerun,         \* the previous run returned True, this run has the same flags, and
                   \* nothing but the script touched dest_dir in between
    envTouched,    \* the environment changed dest_dir since the last run returned
    \* ---- github_repo_clone.py: main, find_ssh_keys, setup_ssh_keys ----
    ghPc,          \* position in main ("start" ... "returned"/"exited")
    strict_host_checking,  \* --strict-host-checking
    private_keys,  \* the keys find_ssh_keys returned (a set of key numbers)
    sshDirMode,    \* permission bits of ~/.ssh (0 = absent)
    tempDirMode,   \* permission bits of ~/.ssh/temp_keys_<ts> (0 = absent)
    keyModes,      \* keyModes[k]: permission bits of the copy of key k in the
                   \* temporary directory (0 = no copy)
    temp_ssh_dir,  \* main's local temp_ssh_dir: "None" or "set"
    sshConfig,     \* content of ~/.ssh/config: "absent", "orig" (no github.com
                   \* entry), "orig_gh" (has one), "orig+block", "block"
    configBackups, \* contents of the ~/.ssh/config.bak.* files
    backedUp,      \* the content setup_ssh_keys backed up ("none" if it made no backup)
    ghExc,         \* the exception setup_ssh_keys is raising ("none" if none)
    host_key_success,       \* main's local: "none", "True", "False"
    connection_successful,  \* what test_github_connection returned: "none","True","False"
    direct_ssh_works,       \* what verify_ssh_works did: "none","True","False","raised"
    ghPending,     \* the value of the return statement main is executing while its
                   \* finally block runs (-1 = none)
    ghRet,         \* what main returned (-1 = has not returned)
    ghExit,        \* process exit status (-1 while running)
    ghRmFailed     \* some os.remove or os.rmdir of the cleanup has failed

leVars == <<lePc, leRoot, leIdx, leStarted, leRet, leSuccess, leResult, leExit,
            leCmds, leWritten, leCredsMode, leSkipCert, leCertFiles>>

cfgVars == <<force_clone, skip_pull, SKIP_CLONE, max_backups>>
fsVars == <<parentExists, destKind, destGit, destRemotes, destMtime, displaced>>
startVars == <<startKind, startGit, startRemotes, startParent, rerun>>
fetchVars == <<attempt, fetch_rc, sleeps>>
updVars == <<pull_rc, reset_code, current_branch>>
\* what no step inside a run changes
runCtx == <<cfgVars, now, runs, startVars, envTouched>>
crVars == <<crPc, fsVars, crResult, ran, gitFailed, fetchVars, updVars, freshFrom,
            movedThisRun, osFailed, runCtx>>

ghVars == <<ghPc, strict_host_checking, private_keys, sshDirMode, tempDirMode,
            keyModes, temp_ssh_dir, sshConfig, configBackups, backedUp, ghExc,
            host_key_success, connection_successful, direct_ssh_works, ghPending,
            ghRet, ghExit, ghRmFailed>>

vars == <<leVars, crVars, ghVars>>

(***************************************************************************)
(* letsencrypt_wildcard_setup.py                                           *)
(***************************************************************************)

\* The list `phases` of main, by function name, in list order.
phases == <<"update_system", "configure_cloudflare_credentials",
            "generate_certificate", "configure_renewal_hook",
            "configure_nginx", "test_certificate">>

NumPhases == Len(phases)

\* os.chmod(credentials_file, 0o600)
ModeOwnerOnly == 384
\* mode of a file created by open(path, 'w') under the usual umask 022
ModeDefault == 420

\* State of main's variables when the script starts.
LEStart ==
    /\ lePc = "start"
    /\ leRoot \in BOOLEAN
    /\ leIdx = 1
    /\ leStarted = <<>>
    /\ leRet = [i \in 1..NumPhases |-> "none"]
    /\ leSuccess = TRUE
    /\ leResult = "none"
    /\ leExit = -1
    /\ leCmds = {}
    /\ leWritten = {}
    /\ leCredsMode \in {0, ModeDefault, ModeOwnerOnly}
    /\ leSkipCert \in BOOLEAN
    /\ leCertFiles \in BOOLEAN

\* A phase function returns `b` to main.
PhaseReturns(i, b) ==
    /\ leRet' = [leRet EXCEPT ![i] = IF b THEN "True" ELSE "False"]
    /\ lePc' = "returned"
    /\ UNCHANGED <<leResult, leExit>>

\* A phase function raises: nothing in main catches it, the interpreter
\* prints the traceback and exits with status 1.
PhaseRaises(i) ==
    /\ leRet' = [leRet EXCEPT ![i] = "raised"]
    /\ lePc' = "exited"
    /\ leResult' = "raised"
    /\ leExit' = 1

InPhase(i) == lePc = "in_phase" /\ leIdx = i

\* main, line 526: setup_logging() creates LOG_DIR under /var/log and opens
\* the log file there, before the root check; os.makedirs or
\* logging.FileHandler raising (PermissionError for a user who may not write
\* to /var/log) is caught nowhere and ends the process with status 1.
setup_logging ==
    /\ lePc = "start"
    /\ \/ /\ lePc' = "root_check"
          /\ UNCHANGED <<leResult, leExit>>
       \/ /\ lePc' = "exited"
          /\ leResult' = "raised"
          /\ leExit' = 1
    /\ UNCHANGED <<crVars, ghVars>>
    /\ UNCHANGED <<leRoot, leIdx, leStarted, leRet, leSuccess, leCmds, leWritten,
                   leCredsMode, leSkipCert, leCertFiles>>

\* main, lines 533-536: the root check.
main_check_root ==
    /\ lePc = "root_check"
    /\ IF leRoot
         THEN /\ lePc' = "loop"
              /\ UNCHANGED <<leResult, leExit>>
         ELSE /\ lePc' = "exited"
              /\ leResult' = "False"
              /\ leExit' = 1
    /\ UNCHANGED <<crVars, ghVars>>
    /\ UNCHANGED <<leRoot, leIdx, leStarted, leRet, leSuccess, leCmds, leWritten,
                   leCredsMode, leSkipCert, leCertFiles>>

\* main, lines 552-557: the loop takes the next phase and calls it.
main_start_phase ==
    /\ lePc = "loop"
    /\ leIdx <= NumPhases
    /\ leStarted' = Append(leStarted, phases[leIdx])
    /\ lePc' = "in_phase"
    /\ UNCHANGED <<crVars, ghVars>>
    /\ UNCHANGED <<leRoot, leIdx, leRet, leSuccess, leResult, leExit, leCmds,
                   leWritten, leCredsMode, leSkipCert, leCertFiles>>

\* update_system: three apt-get commands, stopping at the first that fails.
update_system ==
    /\ InPhase(1)
    /\ \E k \in 0..3 :   \* number of commands that succeed before the first failure
         /\ leCmds' = leCmds \cup {"apt-get update"}
                        \cup (IF k >= 1 THEN {"apt-get upgrade"} ELSE {})
                        \cup (IF k >= 2 THEN {"apt-get install"} ELSE {})
         /\ PhaseReturns(1, k = 3)
    /\ UNCHANGED <<crVars, ghVars>>
    /\ UNCHANGED <<leRoot, leIdx, leStarted, leSuccess, leWritten, leCredsMode,
                   leSkipCert, leCertFiles>>

\* configure_cloudflare_credentials: makedirs (outside the try), then
\* open/write and chmod 0o600 inside it.
configure_cloudflare_credentials ==
    /\ InPhase(2)
    /\ \/ /\ PhaseRaises(2)                      \* os.makedirs raises
          /\ UNCHANGED <<leWritten, leCredsMode>>
       \/ /\ PhaseReturns(2, FALSE)              \* open() fails
          /\ UNCHANGED <<leWritten, leCredsMode>>
       \/ /\ PhaseReturns(2, FALSE)              \* write or chmod fails
          /\ leWritten' = leWritten \cup {"credentials.ini"}
          /\ leCredsMode' = IF leCredsMode = 0 THEN ModeDefault ELSE leCredsMode
       \/ /\ PhaseReturns(2, TRUE)               \* written and chmod done
          /\ leWritten' = leWritten \cup {"credentials.ini"}
          /\ leCredsMode' = ModeOwnerOnly
    /\ UNCHANGED <<crVars, ghVars>>
    /\ UNCHANGED <<leRoot, leIdx, leStarted, leSuccess, leCmds, leSkipCert,
                   leCertFiles>>

\* generate_certificate: testing mode only looks for the files; otherwise
\* certbot runs and the files are looked for afterwards.
generate_certificate ==
    /\ InPhase(3)
    /\ IF leSkipCert
         THEN /\ PhaseReturns(3, leCertFiles)
              /\ UNCHANGED <<leCmds, leCertFiles>>
         ELSE /\ leCmds' = leCmds \cup {"certbot certonly"}
              /\ \/ /\ PhaseReturns(3, FALSE)    \* certbot fails
                    /\ UNCHANGED leCertFiles
                 \/ \E made \in BOOLEAN :        \* certbot exits 0
                      /\ leCertFiles' = (leCertFiles \/ made)
                      /\ PhaseReturns(3, leCertFiles \/ made)
    /\ UNCHANGED <<crVars, ghVars>>
    /\ UNCHANGED <<leRoot, leIdx, leStarted, leSuccess, leWritten, leCredsMode,
                   leSkipCert>>

\* configure_renewal_hook: makedirs (outside the try), then the hook script
\* and the renewal log inside it.
configure_renewal_hook ==
    /\ InPhase(4)
    /\ \/ /\ PhaseRaises(4)
          /\ UNCHANGED leWritten
       \/ \E k \in 0..2 :   \* files written before the first failure
            /\ leWritten' = leWritten
                  \cup (IF k >= 1 THEN {"nginx-reload.sh"} ELSE {})
                  \cup (IF k >= 2 THEN {"letsencrypt-renewal.log"} ELSE {})
            /\ \E ok \in BOOLEAN : PhaseReturns(4, k = 2 /\ ok)
    /\ UNCHANGED <<crVars, ghVars>>
    /\ UNCHANGED <<leRoot, leIdx, leStarted, leSuccess, leCmds, leCredsMode,
                   leSkipCert, leCertFiles>>

\* The files configure_nginx writes, in the order it writes them.
NginxFiles == <<"ssl-params.conf", "sites-available/api", "sites-available/default",
                "sites-enabled/api", "sites-enabled/default", "index.html",
                "50x.html">>

\* configure_nginx: makedirs (outside the try), the configuration files,
\* then nginx -t and systemctl reload nginx.
configure_nginx ==
    /\ InPhase(5)
    /\ \/ /\ PhaseRaises(5)
          /\ UNCHANGED <<leWritten, leCmds>>
       \/ \E k \in 0..(Len(NginxFiles) - 1) :    \* a write fails after k files
            /\ leWritten' = leWritten \cup {NginxFiles[j] : j \in 1..k}
            /\ UNCHANGED leCmds
            /\ PhaseReturns(5, FALSE)
       \/ \E c \in 0..2 :                        \* all written; c commands succeed
            /\ leWritten' = leWritten \cup {NginxFiles[j] : j \in 1..Len(NginxFiles)}
            /\ leCmds' = leCmds \cup {"nginx -t"}
                           \cup (IF c >= 1 THEN {"systemctl reload nginx"} ELSE {})
            /\ PhaseReturns(5, c = 2)
    /\ UNCHANGED <<crVars, ghVars>>
    /\ UNCHANGED <<leRoot, leIdx, leStarted, leSuccess, leCredsMode, leSkipCert,
                   leCertFiles>>

\* test_certificate: the files must exist, then nginx -t and systemctl status.
test_certificate ==
    /\ InPhase(6)
    /\ IF ~leCertFiles
         THEN /\ PhaseReturns(6, FALSE)
              /\ UNCHANGED leCmds
         ELSE \E c \in 0..2 :
                /\ leCmds' = leCmds \cup {"nginx -t"}
                               \cup (IF c >= 1 THEN {"systemctl status nginx"} ELSE {})
                /\ PhaseReturns(6, c = 2)
    /\ UNCHANGED <<crVars, ghVars>>
    /\ UNCHANGED <<leRoot, leIdx, leStarted, leSuccess, leWritten, leCredsMode,
                   leSkipCert, leCertFiles>>

\* Mutant of main_phase_result: the `break` after a failed phase is missing.
main_phase_result_nobreak ==
    /\ lePc = "returned"
    /\ leSuccess' = (leSuccess /\ leRet[leIdx] = "True")
    /\ leIdx' = leIdx + 1
    /\ lePc' = "loop"
    /\ UNCHANGED <<crVars, ghVars>>
    /\ UNCHANGED <<leRoot, leStarted, leRet, leResult, leExit, leCmds, leWritten,
                   leCredsMode, leSkipCert, leCertFiles>>

\* main, lines 557-563: the loop body after the phase function returned.
main_phase_result ==
    /\ lePc = "returned"
    /\ IF leRet[leIdx] = "True"
         THEN /\ leIdx' = leIdx + 1
              /\ lePc' = "loop"
              /\ UNCHANGED leSuccess
         ELSE /\ leSuccess' = FALSE
              /\ lePc' = "summary"
              /\ UNCHANGED leIdx
    /\ UNCHANGED <<crVars, ghVars>>
    /\ UNCHANGED <<leRoot, leStarted, leRet, leResult, leExit, leCmds, leWritten,
                   leCredsMode, leSkipCert, leCertFiles>>

\* Mutant of main_return: the summary reports success whatever happened.
main_return_always_true ==
    /\ \/ lePc = "loop" /\ leIdx > NumPhases
       \/ lePc = "summary"
    /\ leResult' = "True"
    /\ leExit' = 0
    /\ lePc' = "exited"
    /\ UNCHANGED <<crVars, ghVars>>
    /\ UNCHANGED <<leRoot, leIdx, leStarted, leRet, leSuccess, leCmds, leWritten,
                   leCredsMode, leSkipCert, leCertFiles>>

\* main, lines 565-584 and 587-588: the loop is over (exhausted or broken
\* out of); main returns success and the process exits 0 or 1.
main_return ==
    /\ \/ lePc = "loop" /\ leIdx > NumPhases
       \/ lePc = "summary"
    /\ leResult' = IF leSuccess THEN "True" ELSE "False"
    /\ leExit' = IF leSuccess THEN 0 ELSE 1
    /\ lePc' = "exited"
    /\ UNCHANGED <<crVars, ghVars>>
    /\ UNCHANGED <<leRoot, leIdx, leStarted, leRet, leSuccess, leCmds, leWritten,
                   leCredsMode, leSkipCert, leCertFiles>>

NextLE ==
    \/ setup_logging
    \/ main_check_root
    \/ main_start_phase
    \/ update_system
    \/ configure_cloudflare_credentials
    \/ generate_certificate
    \/ configure_renewal_hook
    \/ configure_nginx
    \/ test_certificate
    \/ main_phase_result
    \/ main_return


(***************************************************************************)
(* github_repo_clone.py: clone_repository, _fresh_clone, backup rotation   *)
(***************************************************************************)

\* MAX_RETRIES = 3
MAX_RETRIES == 3

\* Bounds of the model.
MaxRuns == 2        \* clone_repository runs in one behaviour
MaxTime == 1        \* the clock runs over 0..MaxTime
MaxBackupsArg == 1  \* the --max-backups of the runs that rotate backups

DestKinds == {"absent", "file", "empty", "nonempty"}
RemoteKinds == {"url", "name", "other", "none"}

\* The states dest_dir can be in: .git and remotes only in a non-empty
\* directory, and a path that exists has a parent.
DestOk(kind, git, remotes, parent) ==
    /\ (git => kind = "nonempty")
    /\ (~git => remotes = "none")
    /\ (kind # "absent" => parent)

\* The variables of a run when no run has started yet.
NoRun ==
    /\ crPc = "idle"
    /\ force_clone = FALSE /\ skip_pull = FALSE /\ SKIP_CLONE = FALSE
    /\ crResult = "none"
    /\ ran = {} /\ gitFailed = FALSE
    /\ attempt = 0 /\ fetch_rc = "none" /\ sleeps = 0
    /\ pull_rc = "none" /\ reset_code = "none"
    /\ current_branch = ""
    /\ freshFrom = "none"
    /\ movedThisRun = {}
    /\ osFailed = FALSE
    /\ rerun = FALSE
    /\ envTouched = FALSE
    /\ runs = 0
    /\ now = 0
    /\ displaced = {}
    /\ destMtime = 0

\* The states a first run of the script can find: any dest_dir, no displaced
\* copies yet.
CloneStart ==
    /\ NoRun
    /\ max_backups \in {0, MaxBackupsArg}   \* rotation disabled, or keep that many
    /\ parentExists \in BOOLEAN
    /\ destKind \in DestKinds
    /\ destGit \in BOOLEAN
    /\ destRemotes \in RemoteKinds
    /\ DestOk(destKind, destGit, destRemotes, parentExists)
    /\ startKind = destKind /\ startGit = destGit
    /\ startRemotes = destRemotes /\ startParent = parentExists

\* clone_repository returns b.
Return(b) ==
    /\ crPc' = "done"
    /\ crResult' = IF b THEN "True" ELSE "False"

\* run_command ran git command c; it exited 0 iff ok.
Ran(c, ok) ==
    /\ ran' = ran \cup {c}
    /\ gitFailed' = (gitFailed \/ ~ok)

\* clone_repository is called (one run of the script): the flags are the
\* run's command line and environment.
clone_repository ==
    /\ crPc = "idle"
    /\ runs < MaxRuns
    /\ runs' = runs + 1
    /\ \E f \in BOOLEAN, sp \in BOOLEAN, sc \in BOOLEAN :
         /\ force_clone' = f /\ skip_pull' = sp /\ SKIP_CLONE' = sc
         /\ rerun' = /\ crResult = "True"
                     /\ ~envTouched
                     /\ f = force_clone /\ sp = skip_pull /\ sc = SKIP_CLONE
    /\ envTouched' = FALSE
    /\ crPc' = "cr_parent"
    /\ crResult' = "none"
    /\ startKind' = destKind /\ startGit' = destGit
    /\ startRemotes' = destRemotes /\ startParent' = parentExists
    /\ UNCHANGED <<max_backups, fsVars, now, ran, gitFailed, fetchVars, updVars,
                   freshFrom, movedThisRun, osFailed>>
    /\ UNCHANGED <<leVars, ghVars>>

\* The process of a run exits (sys.exit(main())): its locals are gone; the
\* filesystem, and what the run returned, stay.
cr_exit ==
    /\ crPc = "done"
    /\ crPc' = "idle"
    /\ ran' = {} /\ gitFailed' = FALSE
    /\ attempt' = 0 /\ fetch_rc' = "none" /\ sleeps' = 0
    /\ pull_rc' = "none" /\ reset_code' = "none"
    /\ current_branch' = ""
    /\ freshFrom' = "none"
    /\ movedThisRun' = {}
    /\ startKind' = destKind /\ startGit' = destGit
    /\ startRemotes' = destRemotes /\ startParent' = parentExists
    /\ rerun' = FALSE
    /\ UNCHANGED <<cfgVars, fsVars, now, runs, crResult, osFailed, envTouched>>
    /\ UNCHANGED <<leVars, ghVars>>

\* clone_repository, lines 805-814: create the parent directory.
cr_parent_dir ==
    /\ crPc = "cr_parent"
    /\ IF parentExists
         THEN /\ crPc' = "cr_skip"
              /\ UNCHANGED <<parentExists, crResult, osFailed>>
         ELSE \/ /\ parentExists' = TRUE          \* os.makedirs succeeds
                 /\ crPc' = "cr_skip"
                 /\ UNCHANGED <<crResult, osFailed>>
              \/ /\ Return(FALSE)                 \* os.makedirs raises
                 /\ osFailed' = TRUE
                 /\ UNCHANGED parentExists
    /\ UNCHANGED <<destKind, destGit, destRemotes, destMtime, displaced, ran,
                   gitFailed, fetchVars, updVars, freshFrom, movedThisRun, runCtx>>
    /\ UNCHANGED <<leVars, ghVars>>

\* clone_repository, lines 816-828: SKIP_CLONE simulates the clone.
cr_skip_clone ==
    /\ crPc = "cr_skip"
    /\ IF SKIP_CLONE
         THEN IF destKind = "absent"
                THEN \/ /\ destKind' = "nonempty"   \* SIMULATED_CLONE.txt written
                        /\ destMtime' = now
                        /\ Return(TRUE)
                     \/ /\ destKind' \in {"absent", "empty"}   \* makedirs or open fails
                        /\ destMtime' = IF destKind' = "empty" THEN now ELSE destMtime
                        /\ Return(FALSE)
                ELSE /\ Return(TRUE)
                     /\ UNCHANGED <<destKind, destMtime>>
         ELSE /\ crPc' = "cr_branch"
              /\ UNCHANGED <<crResult, destKind, destMtime>>
    /\ UNCHANGED <<parentExists, destGit, destRemotes, displaced, ran, gitFailed,
                   fetchVars, updVars, freshFrom, movedThisRun, osFailed, runCtx>>
    /\ UNCHANGED <<leVars, ghVars>>

\* Mutant of cr_dispatch: force_clone is not consulted, an existing
\* repository is always updated in place.
cr_dispatch_ignores_force ==
    /\ crPc = "cr_branch"
    /\ IF destGit
         THEN crPc' = "cr_health" /\ UNCHANGED freshFrom
         ELSE crPc' = "fc_prepare" /\ freshFrom' = "dispatch"
    /\ UNCHANGED <<fsVars, crResult, ran, gitFailed, fetchVars, updVars,
                   movedThisRun, osFailed, runCtx>>
    /\ UNCHANGED <<leVars, ghVars>>

\* Mutant of cr_dispatch: the two branches are swapped.
cr_dispatch_inverted ==
    /\ crPc = "cr_branch"
    /\ IF destGit /\ ~force_clone
         THEN crPc' = "fc_prepare" /\ freshFrom' = "dispatch"
         ELSE crPc' = "cr_health" /\ UNCHANGED freshFrom
    /\ UNCHANGED <<fsVars, crResult, ran, gitFailed, fetchVars, updVars,
                   movedThisRun, osFailed, runCtx>>
    /\ UNCHANGED <<leVars, ghVars>>

\* clone_repository, lines 830-832 and 981-983: an existing repository is
\* updated unless force_clone; everything else is a fresh clone.
cr_dispatch ==
    /\ crPc = "cr_branch"
    /\ IF destGit /\ ~force_clone
         THEN crPc' = "cr_health" /\ UNCHANGED freshFrom
         ELSE crPc' = "fc_prepare" /\ freshFrom' = "dispatch"
    /\ UNCHANGED <<fsVars, crResult, ran, gitFailed, fetchVars, updVars,
                   movedThisRun, osFailed, runCtx>>
    /\ UNCHANGED <<leVars, ghVars>>

\* check_git_repo_health, called at line 835: git status, git remote -v and
\* a test git fetch, stopping at the first that fails.  Its verdict is read
\* only under force_clone (line 838), which is false on this path.
check_git_repo_health ==
    /\ crPc = "cr_health"
    /\ \E k \in 0..3 :   \* commands that succeed before the first failure
         /\ ran' = ran \cup {"status"}
                      \cup (IF k >= 1 THEN {"remote -v"} ELSE {})
                      \cup (IF k >= 2 THEN {"fetch origin"} ELSE {})
         /\ gitFailed' = (gitFailed \/ k < 3)
    /\ crPc' = "cr_remote"
    /\ UNCHANGED <<fsVars, crResult, fetchVars, updVars, freshFrom, movedThisRun,
                   osFailed, runCtx>>
    /\ UNCHANGED <<leVars, ghVars>>

\* Mutant of RemoteMatches: the test is negated.
RemoteMatches_negated(remotes) == ~(remotes = "url" \/ remotes = "name")

\* clone_repository, lines 862-864: the remotes are taken to be the expected
\* repository when `git remote -v` prints repo_url, or merely repo_name.
RemoteMatches(remotes) == remotes = "url" \/ remotes = "name"

\* The name lines 869-875 and 1092-1098 build for a displaced copy:
\* <dest_dir>_<kind>_<now>, or with _<pid> appended when that path exists.
NewName(kind) ==
    [kind |-> kind, ts |-> now,
     pid |-> IF \E d \in displaced : d.kind = kind /\ d.ts = now /\ d.pid = 0
               THEN runs ELSE 0,
     mtime |-> destMtime]

\* The directories glob(<dest_dir>_backup_*) finds.
Backups(disp) == {d \in disp : d.kind = "backup"}

\* The sets backup_dirs[max_backups:] can be after the sort by mtime, newest
\* first (directories of equal mtime in either order).
Removable(B, n) ==
    {rm \in SUBSET B :
        /\ Cardinality(B \ rm) = n
        /\ \A k \in B \ rm : \A r \in rm : k.mtime >= r.mtime}

\* _cleanup_old_backups(dest_dir, n): the possible results, each with the
\* directories left and whether some shutil.rmtree failed (the directory
\* then stays).
CleanupOutcomes(disp, n) ==
    IF n <= 0 \/ Cardinality(Backups(disp)) <= n
      THEN {[disp |-> disp, failed |-> FALSE]}
      ELSE UNION {{[disp |-> disp \ (rm \ stay), failed |-> stay # {}] :
                      stay \in SUBSET rm} : rm \in Removable(Backups(disp), n)}

\* shutil.move(dest_dir, <name>) succeeded, then _cleanup_old_backups ran.
MoveAside(kind) ==
    LET d == NewName(kind) IN
    /\ movedThisRun' = {d}
    /\ \E o \in CleanupOutcomes(displaced \cup {d}, max_backups) :
         /\ displaced' = o.disp
         /\ osFailed' = (osFailed \/ o.failed)
    /\ destKind' = "absent"
    /\ destGit' = FALSE
    /\ destRemotes' = "none"

\* clone_repository, lines 850-892: compare the remotes; a mismatch is backed
\* up and cloned afresh, a match is updated unless skip_pull.
cr_check_remote ==
    /\ crPc = "cr_remote"
    /\ \/ /\ Ran("remote -v", FALSE)             \* git remote -v fails
          /\ freshFrom' = "remote_failed"
          /\ crPc' = "fc_prepare"
          /\ UNCHANGED <<crResult, fsVars, movedThisRun, osFailed>>
       \/ /\ Ran("remote -v", TRUE)
          /\ IF ~RemoteMatches(destRemotes)
               THEN \/ /\ Return(FALSE)          \* shutil.move raises
                       /\ osFailed' = TRUE
                       /\ UNCHANGED <<fsVars, movedThisRun, freshFrom>>
                    \/ /\ MoveAside("backup")
                       /\ freshFrom' = "mismatch"
                       /\ crPc' = "fc_prepare"
                       /\ UNCHANGED <<crResult, parentExists, destMtime>>
               ELSE /\ IF skip_pull
                         THEN Return(TRUE)
                         ELSE crPc' = "u_fetch" /\ UNCHANGED crResult
                    /\ UNCHANGED <<fsVars, movedThisRun, osFailed, freshFrom>>
    /\ UNCHANGED <<fetchVars, updVars, runCtx>>
    /\ UNCHANGED <<leVars, ghVars>>

\* clone_repository, lines 897-906: git fetch --all; a failure is only logged.
u_fetch_all ==
    /\ crPc = "u_fetch"
    /\ \E ok \in BOOLEAN : Ran("fetch --all --tags", ok)
    /\ crPc' = "u_branch"
    /\ UNCHANGED <<fsVars, crResult, fetchVars, updVars, freshFrom, movedThisRun,
                   osFailed, runCtx>>
    /\ UNCHANGED <<leVars, ghVars>>

\* clone_repository, lines 908-932: the current branch, the default branch
\* (_get_default_branch: git symbolic-ref, then git rev-parse of origin/main
\* and origin/master, then "main"), and a checkout of the default branch
\* when HEAD is detached.
u_current_branch ==
    /\ crPc = "u_branch"
    /\ \E detached \in BOOLEAN, probesOk \in BOOLEAN, co \in BOOLEAN :
         /\ ran' = ran \cup {"branch --show-current", "symbolic-ref"}
                      \cup (IF detached THEN {"checkout"} ELSE {})
         /\ gitFailed' = (gitFailed \/ ~probesOk \/ (detached /\ ~co))
         /\ current_branch' = IF detached THEN "default" ELSE "current"
         /\ IF detached /\ ~co
              THEN Return(FALSE)
              ELSE crPc' = "u_verify" /\ UNCHANGED crResult
    /\ UNCHANGED <<fsVars, fetchVars, pull_rc, reset_code, freshFrom, movedThisRun,
                   osFailed, runCtx>>
    /\ UNCHANGED <<leVars, ghVars>>

\* clone_repository, lines 934-944: fall back to the default branch when
\* origin/<current_branch> does not exist.
u_verify_branch ==
    /\ crPc = "u_verify"
    /\ \E ok \in BOOLEAN :
         /\ Ran("rev-parse", ok)
         /\ current_branch' = IF ok THEN current_branch ELSE "default"
    /\ crPc' = "u_pull"
    /\ UNCHANGED <<fsVars, crResult, fetchVars, pull_rc, reset_code, freshFrom,
                   movedThisRun, osFailed, runCtx>>
    /\ UNCHANGED <<leVars, ghVars>>

\* Mutant of u_pull: a successful pull is followed by a re-clone.
u_pull_then_reclone ==
    /\ crPc = "u_pull"
    /\ Ran("pull --ff-only", TRUE)
    /\ pull_rc' = "ok"
    /\ crPc' = "fc_prepare"
    /\ freshFrom' = "reset_failed"
    /\ UNCHANGED <<fsVars, crResult, fetchVars, reset_code, current_branch,
                   movedThisRun, osFailed, runCtx>>
    /\ UNCHANGED <<leVars, ghVars>>

\* clone_repository, lines 946-953 and 970-973: git pull --ff-only.
u_pull ==
    /\ crPc = "u_pull"
    /\ \E ok \in BOOLEAN :
         /\ Ran("pull --ff-only", ok)
         /\ pull_rc' = IF ok THEN "ok" ELSE "failed"
         /\ IF ok THEN Return(TRUE)
                  ELSE crPc' = "u_reset" /\ UNCHANGED crResult
    /\ UNCHANGED <<fsVars, fetchVars, reset_code, current_branch, freshFrom,
                   movedThisRun, osFailed, runCtx>>
    /\ UNCHANGED <<leVars, ghVars>>

\* Mutant of u_reset: _fresh_clone follows the reset whatever its outcome.
u_reset_always_reclones ==
    /\ crPc = "u_reset"
    /\ \E ok \in BOOLEAN :
         /\ Ran("reset --hard", ok)
         /\ reset_code' = IF ok THEN "ok" ELSE "failed"
    /\ crPc' = "fc_prepare"
    /\ freshFrom' = "reset_failed"
    /\ UNCHANGED <<fsVars, crResult, fetchVars, pull_rc, current_branch, movedThisRun,
                   osFailed, runCtx>>
    /\ UNCHANGED <<leVars, ghVars>>

\* clone_repository, lines 956-969: git reset --hard, then _fresh_clone.
u_reset ==
    /\ crPc = "u_reset"
    /\ \E ok \in BOOLEAN :
         /\ Ran("reset --hard", ok)
         /\ reset_code' = IF ok THEN "ok" ELSE "failed"
         /\ IF ok THEN Return(TRUE) /\ UNCHANGED freshFrom
                  ELSE /\ crPc' = "fc_prepare"
                       /\ freshFrom' = "reset_failed"
                       /\ UNCHANGED crResult
    /\ UNCHANGED <<fsVars, fetchVars, pull_rc, current_branch, movedThisRun,
                   osFailed, runCtx>>
    /\ UNCHANGED <<leVars, ghVars>>

\* _fresh_clone, lines 1085-1111: make room at dest_dir.
fc_prepare ==
    /\ crPc = "fc_prepare"
    /\ CASE destKind = "nonempty" ->
              \/ /\ Return(FALSE)                \* shutil.move raises
                 /\ osFailed' = TRUE
                 /\ UNCHANGED <<fsVars, movedThisRun>>
              \/ /\ MoveAside("old")
                 /\ crPc' = "fc_init"
                 /\ UNCHANGED <<crResult, parentExists, destMtime>>
         [] destKind = "file" ->
              \/ /\ Return(FALSE)                \* os.remove raises
                 /\ osFailed' = TRUE
                 /\ UNCHANGED <<fsVars, movedThisRun>>
              \/ /\ destKind' = "absent"
                 /\ crPc' = "fc_init"
                 /\ UNCHANGED <<crResult, parentExists, destGit, destRemotes,
                                destMtime, displaced, movedThisRun, osFailed>>
         [] OTHER ->
              /\ crPc' = "fc_init"
              /\ UNCHANGED <<crResult, fsVars, movedThisRun, osFailed>>
    /\ UNCHANGED <<ran, gitFailed, fetchVars, updVars, freshFrom, runCtx>>
    /\ UNCHANGED <<leVars, ghVars>>

\* _fresh_clone, lines 1114-1129: create dest_dir if needed and git init.
fc_init ==
    /\ crPc = "fc_init"
    /\ \/ /\ destKind = "absent"                 \* os.makedirs raises
          /\ Return(FALSE)
          /\ osFailed' = TRUE
          /\ UNCHANGED <<destKind, destGit, destMtime, ran, gitFailed>>
       \/ /\ Ran("init", FALSE)                  \* git init fails and raises
          /\ Return(FALSE)
          /\ destKind' = IF destKind = "absent" THEN "empty" ELSE destKind
          /\ destMtime' = IF destKind = "absent" THEN now ELSE destMtime
          /\ UNCHANGED <<destGit, osFailed>>
       \/ /\ Ran("init", TRUE)
          /\ destKind' = "nonempty"
          /\ destGit' = TRUE
          /\ destMtime' = now
          /\ crPc' = "fc_remote"
          /\ UNCHANGED <<crResult, osFailed>>
    /\ UNCHANGED <<parentExists, destRemotes, displaced, fetchVars, updVars,
                   freshFrom, movedThisRun, runCtx>>
    /\ UNCHANGED <<leVars, ghVars>>

\* _fresh_clone, lines 1131-1151: point origin at repo_url (git remote, then
\* git remote add, or git remote set-url when origin is already there).
fc_remote ==
    /\ crPc = "fc_remote"
    /\ LET cmd == IF destRemotes = "none" THEN "remote add" ELSE "remote set-url" IN
       \E ok \in BOOLEAN :
         /\ ran' = ran \cup {"remote", cmd}
         /\ gitFailed' = (gitFailed \/ ~ok)
         /\ IF ok
              THEN /\ destRemotes' = "url"
                   /\ crPc' = "fc_fetch"
                   /\ UNCHANGED crResult
              ELSE /\ Return(FALSE)
                   /\ UNCHANGED destRemotes
    /\ UNCHANGED <<parentExists, destKind, destGit, destMtime, displaced, fetchVars,
                   updVars, freshFrom, movedThisRun, osFailed, runCtx>>
    /\ UNCHANGED <<leVars, ghVars>>

\* What a git command can do under run_command.
Outcomes == {"ok", "nonzero", "exception", "timeout"}

\* run_command, lines 294-310: with check, a non-zero exit raises
\* CalledProcessError and an execution exception is re-raised; a timeout is
\* caught at line 302 and returned as (124, "", ...) whatever check is.
run_command_raises(check, outcome) ==
    check /\ outcome \in {"nonzero", "exception"}

\* run_command, lines 294-310: the return code handed to a caller the call
\* returns to (1 stands for any non-zero exit status of the command).
run_command_returncode(outcome) ==
    CASE outcome = "ok" -> 0
      [] outcome = "timeout" -> 124
      [] OTHER -> 1

\* _fresh_clone, lines 1160-1179: one pass of the retry loop around
\* git fetch --all (check=True, timeout=300).
fc_fetch ==
    /\ crPc = "fc_fetch"
    /\ attempt < MAX_RETRIES
    /\ attempt' = attempt + 1
    /\ \E o \in Outcomes :
         /\ fetch_rc' = o
         /\ Ran("fetch --all", o = "ok")
         /\ IF run_command_raises(TRUE, o)
              THEN IF attempt + 1 < MAX_RETRIES
                     THEN crPc' = "fc_sleep" /\ UNCHANGED crResult
                     ELSE Return(FALSE)          \* raise, caught at line 1253
              ELSE crPc' = "fc_branch" /\ UNCHANGED crResult   \* break
    /\ UNCHANGED <<fsVars, sleeps, updVars, freshFrom, movedThisRun, osFailed,
                   runCtx>>
    /\ UNCHANGED <<leVars, ghVars>>

\* _fresh_clone, lines 1175-1177: time.sleep(RETRY_DELAY) before the next attempt.
fc_sleep ==
    /\ crPc = "fc_sleep"
    /\ sleeps' = sleeps + 1
    /\ crPc' = "fc_fetch"
    /\ UNCHANGED <<fsVars, crResult, ran, gitFailed, attempt, fetch_rc, updVars,
                   freshFrom, movedThisRun, osFailed, runCtx>>
    /\ UNCHANGED <<leVars, ghVars>>

\* _fresh_clone, lines 1181-1197: git remote show origin names the default
\* branch; "main" when it fails.
fc_default_branch ==
    /\ crPc = "fc_branch"
    /\ \E ok \in BOOLEAN : Ran("remote show origin", ok)
    /\ crPc' = "fc_checkout"
    /\ UNCHANGED <<fsVars, crResult, fetchVars, updVars, freshFrom, movedThisRun,
                   osFailed, runCtx>>
    /\ UNCHANGED <<leVars, ghVars>>

\* _fresh_clone, lines 1199-1234: git checkout -b <default> origin/<default>;
\* when that fails with "already exists": checkout and pull, and checkout -f
\* as the last resort; any other failure is raised.
fc_checkout ==
    /\ crPc = "fc_checkout"
    /\ \/ /\ Ran("checkout -b", TRUE)
          /\ destMtime' = now
          /\ crPc' = "fc_verify"
          /\ UNCHANGED crResult
       \/ /\ Ran("checkout -b", FALSE)           \* fails, not "already exists"
          /\ Return(FALSE)
          /\ UNCHANGED destMtime
       \/ \E k \in 0..2, forced \in BOOLEAN :    \* "already exists"; k of checkout, pull succeed
            /\ ran' = ran \cup {"checkout -b", "checkout"}
                         \cup (IF k >= 1 THEN {"pull"} ELSE {})
                         \cup (IF k < 2 THEN {"checkout -f"} ELSE {})
            /\ gitFailed' = TRUE
            /\ IF k = 2 \/ forced
                 THEN /\ crPc' = "fc_verify"
                      /\ destMtime' = now
                      /\ UNCHANGED crResult
                 ELSE /\ Return(FALSE)
                      /\ UNCHANGED destMtime
    /\ UNCHANGED <<parentExists, destKind, destGit, destRemotes, displaced,
                   fetchVars, updVars, freshFrom, movedThisRun, osFailed, runCtx>>
    /\ UNCHANGED <<leVars, ghVars>>

\* _fresh_clone, lines 1235-1246: the clone counts when dest_dir/.git exists.
fc_verify ==
    /\ crPc = "fc_verify"
    /\ Return(destGit)
    /\ UNCHANGED <<fsVars, ran, gitFailed, fetchVars, updVars, freshFrom,
                   movedThisRun, osFailed, runCtx>>
    /\ UNCHANGED <<leVars, ghVars>>

\* Environment: between two runs the clock moves on (int(time.time())).
Tick ==
    /\ crPc = "idle"
    /\ runs < MaxRuns
    /\ now < MaxTime
    /\ now' = now + 1
    /\ UNCHANGED <<crPc, fsVars, crResult, ran, gitFailed, fetchVars, updVars,
                   freshFrom, movedThisRun, osFailed, cfgVars, runs, startVars,
                   envTouched>>
    /\ UNCHANGED <<leVars, ghVars>>

\* Environment: between two runs somebody changes the remotes of the
\* repository in dest_dir.
EnvChangesRemotes ==
    /\ crPc = "idle"
    /\ runs < MaxRuns
    /\ destGit
    /\ \E r \in RemoteKinds \ {destRemotes} : destRemotes' = r
    /\ envTouched' = TRUE
    /\ UNCHANGED <<crPc, parentExists, destKind, destGit, destMtime, displaced,
                   crResult, ran, gitFailed, fetchVars, updVars, freshFrom,
                   movedThisRun, osFailed, cfgVars, now, runs, startVars>>
    /\ UNCHANGED <<leVars, ghVars>>

NextClone ==
    \/ clone_repository
    \/ cr_parent_dir
    \/ cr_skip_clone
    \/ cr_dispatch
    \/ check_git_repo_health
    \/ cr_check_remote
    \/ u_fetch_all
    \/ u_current_branch
    \/ u_verify_branch
    \/ u_pull
    \/ u_reset
    \/ fc_prepare
    \/ fc_init
    \/ fc_remote
    \/ fc_fetch
    \/ fc_sleep
    \/ fc_default_branch
    \/ fc_checkout
    \/ fc_verify
    \/ cr_exit
    \/ Tick
    \/ EnvChangesRemotes

(***************************************************************************)
(* github_repo_clone.py: main, find_ssh_keys, setup_ssh_keys               *)
(***************************************************************************)

\* Exit codes, lines 35-42.
EXIT_SUCCESS == 0
EXIT_FAILURE == 1
EXIT_SSH_CONFIG_ERROR == 3
EXIT_GITHUB_CONNECTION_ERROR == 4
EXIT_GIT_CLONE_ERROR == 5
EXIT_PERMISSION_ERROR == 7

\* os.chmod(ssh_dir, 0o700) and os.chmod(temp_ssh_dir, 0o700)
ModeDirOwnerOnly == 448
\* mode of a directory created by os.makedirs under the usual umask 022
ModeDirDefault == 493

\* Bound of the model: the private key files in the --ssh-dir directory.
NumKeys == 2
Keys == 1..NumKeys

\* The OSError subclasses main tells apart, and RuntimeError.
OsErrors == {"FileNotFoundError", "PermissionError", "OSError"}

ghFs == <<sshDirMode, tempDirMode, keyModes, sshConfig, configBackups, backedUp>>
ghLocals == <<host_key_success, connection_successful, direct_ssh_works>>
ghOut == <<ghPending, ghRet, ghExit>>

\* main has not been started: what the other scripts' runs leave alone.
GHIdle ==
    /\ ghPc = "start"
    /\ strict_host_checking = FALSE
    /\ private_keys = {}
    /\ tempDirMode = 0
    /\ keyModes = [k \in Keys |-> 0]
    /\ temp_ssh_dir = "None"
    /\ configBackups = {}
    /\ backedUp = "none"
    /\ ghExc = "none"
    /\ host_key_success = "none"
    /\ connection_successful = "none"
    /\ direct_ssh_works = "none"
    /\ ghPending = -1 /\ ghRet = -1 /\ ghExit = -1
    /\ ghRmFailed = FALSE

\* The states main of github_repo_clone.py can start in: ~/.ssh absent or
\* there with either mode, ~/.ssh/config absent or there with or without a
\* github.com entry; no temporary key directory and no config backup yet.
GHStart ==
    /\ GHIdle
    /\ sshDirMode \in {0, ModeDirDefault, ModeDirOwnerOnly}
    /\ sshConfig \in {"absent", "orig", "orig_gh"}

\* main, lines 1405-1414: which except clause of main catches the exception.
ExitCodeFor(exc) ==
    IF exc = "PermissionError" THEN EXIT_PERMISSION_ERROR ELSE EXIT_FAILURE

\* `return code` inside main's try: the finally block runs before main returns.
ReturnFromTry(code) ==
    /\ ghPending' = code
    /\ ghPc' = "finally"
    /\ UNCHANGED <<ghRet, ghExit>>

\* main, lines 1302-1337 and parse_arguments: argparse ends the process
\* itself (SystemExit 0 for --help, 2 for a bad argument, which
\* `except Exception` does not catch); any other exception there reaches the
\* outer handler at line 1442.
gh_parse_arguments ==
    /\ ghPc = "start"
    /\ \/ /\ strict_host_checking' \in BOOLEAN
          /\ ghPc' = "step1"
          /\ UNCHANGED ghOut
       \/ /\ ghExit' \in {0, 2}
          /\ ghPc' = "exited"
          /\ UNCHANGED <<strict_host_checking, ghPending, ghRet>>
       \/ /\ ghRet' = EXIT_FAILURE
          /\ ghExit' = EXIT_FAILURE
          /\ ghPc' = "returned"
          /\ UNCHANGED <<strict_host_checking, ghPending>>
    /\ UNCHANGED <<private_keys, ghFs, temp_ssh_dir, ghExc, ghLocals, ghRmFailed>>
    /\ UNCHANGED <<leVars, crVars>>

\* main, lines 1341-1343, and find_ssh_keys: the private keys found (some
\* number of them, numbered in list order), or FileNotFoundError when there
\* is none.
gh_find_ssh_keys ==
    /\ ghPc = "step1"
    /\ \/ /\ private_keys' \in {1..n : n \in 1..NumKeys}
          /\ ghPc' = "ss_ensure"
          /\ UNCHANGED ghOut
       \/ /\ ReturnFromTry(ExitCodeFor("FileNotFoundError"))
          /\ UNCHANGED private_keys
    /\ UNCHANGED <<strict_host_checking, ghFs, temp_ssh_dir, ghExc, ghLocals,
                   ghRmFailed>>
    /\ UNCHANGED <<leVars, crVars>>

\* ensure_ssh_directory, called at line 424, before the try of
\* setup_ssh_keys: os.makedirs, then os.chmod(ssh_dir, 0o700), whose failure
\* is raised as RuntimeError.
ensure_ssh_directory ==
    /\ ghPc = "ss_ensure"
    /\ \/ /\ sshDirMode' = ModeDirOwnerOnly
          /\ ghPc' = "ss_temp"
          /\ UNCHANGED ghOut
       \/ \E e \in OsErrors :                     \* os.makedirs raises
            /\ sshDirMode = 0
            /\ ReturnFromTry(ExitCodeFor(e))
            /\ UNCHANGED sshDirMode
       \/ /\ sshDirMode' = IF sshDirMode = 0 THEN ModeDirDefault ELSE sshDirMode
          /\ ReturnFromTry(ExitCodeFor("RuntimeError"))   \* os.chmod raises
    /\ UNCHANGED <<strict_host_checking, private_keys, tempDirMode, keyModes,
                   sshConfig, configBackups, backedUp, temp_ssh_dir, ghExc, ghLocals,
                   ghRmFailed>>
    /\ UNCHANGED <<leVars, crVars>>

\* setup_ssh_keys, lines 429-433: the temporary key directory.
ss_make_temp ==
    /\ ghPc = "ss_temp"
    /\ \/ /\ tempDirMode' = ModeDirOwnerOnly
          /\ ghPc' = "ss_copy"
          /\ UNCHANGED ghExc
       \/ \E e \in OsErrors :                     \* os.makedirs raises
            /\ ghExc' = e
            /\ ghPc' = "ss_except"
            /\ UNCHANGED tempDirMode
       \/ \E e \in OsErrors :                     \* os.chmod raises
            /\ ghExc' = e
            /\ tempDirMode' = ModeDirDefault
            /\ ghPc' = "ss_except"
    /\ UNCHANGED <<strict_host_checking, private_keys, sshDirMode, keyModes,
                   sshConfig, configBackups, backedUp, temp_ssh_dir, ghLocals, ghOut,
                   ghRmFailed>>
    /\ UNCHANGED <<leVars, crVars>>

\* The keys the loop at line 436 has not reached yet.
ToCopy == {k \in private_keys : keyModes[k] = 0}

\* Mutant of ss_copy_key: the os.chmod(dest_path, 0o600) is missing.
ss_copy_key_no_chmod ==
    /\ ghPc = "ss_copy"
    /\ ToCopy # {}
    /\ LET k == CHOOSE x \in ToCopy : \A y \in ToCopy : x <= y IN
         /\ keyModes' = [keyModes EXCEPT ![k] = ModeDefault]
         /\ ghPc' = IF ToCopy \ {k} = {} THEN "ss_config" ELSE "ss_copy"
         /\ UNCHANGED ghExc
    /\ UNCHANGED <<strict_host_checking, private_keys, sshDirMode, tempDirMode,
                   sshConfig, configBackups, backedUp, temp_ssh_dir, ghLocals, ghOut,
                   ghRmFailed>>
    /\ UNCHANGED <<leVars, crVars>>

\* setup_ssh_keys, lines 436-457: one pass of the loop copies the next key
\* and sets its mode to 0o600; a failure is re-raised.
ss_copy_key ==
    /\ ghPc = "ss_copy"
    /\ ToCopy # {}
    /\ LET k == CHOOSE x \in ToCopy : \A y \in ToCopy : x <= y IN
         \/ /\ keyModes' = [keyModes EXCEPT ![k] = ModeOwnerOnly]
            /\ ghPc' = IF ToCopy \ {k} = {} THEN "ss_config" ELSE "ss_copy"
            /\ UNCHANGED ghExc
         \/ \E e \in OsErrors :                   \* open() raises: no copy made
              /\ ghExc' = e
              /\ ghPc' = "ss_except"
              /\ UNCHANGED keyModes
         \/ \E e \in OsErrors :                   \* write or os.chmod raises
              /\ ghExc' = e
              /\ keyModes' = [keyModes EXCEPT ![k] = ModeDefault]
              /\ ghPc' = "ss_except"
    /\ UNCHANGED <<strict_host_checking, private_keys, sshDirMode, tempDirMode,
                   sshConfig, configBackups, backedUp, temp_ssh_dir, ghLocals, ghOut,
                   ghRmFailed>>
    /\ UNCHANGED <<leVars, crVars>>

\* setup_ssh_keys, lines 463-470: "Host github.com" is in the config.
github_config_exists(config) == config \in {"orig_gh", "orig+block", "block"}

\* setup_ssh_keys, lines 459-530: back up an existing ~/.ssh/config, append
\* the github.com block unless the config has one, return temp_ssh_dir.
ss_config ==
    /\ ghPc = "ss_config"
    /\ \E backupOk \in BOOLEAN :
         LET made == sshConfig # "absent" /\ backupOk IN
         /\ configBackups' = IF made THEN configBackups \cup {sshConfig}
                                     ELSE configBackups
         /\ backedUp' = IF made THEN sshConfig ELSE "none"
         /\ IF github_config_exists(sshConfig)
              THEN /\ UNCHANGED <<sshConfig, ghExc>>
                   /\ temp_ssh_dir' = "set"
                   /\ ghPc' = "step3"
              ELSE \/ /\ sshConfig' = IF sshConfig = "absent" THEN "block"
                                                            ELSE "orig+block"
                      /\ temp_ssh_dir' = "set"
                      /\ ghPc' = "step3"
                      /\ UNCHANGED ghExc
                   \/ /\ UNCHANGED <<sshConfig, temp_ssh_dir>>  \* the write fails
                      /\ ghExc' = "RuntimeError"
                      /\ ghPc' = "ss_except"
    /\ UNCHANGED <<strict_host_checking, private_keys, sshDirMode, tempDirMode,
                   keyModes, ghLocals, ghOut, ghRmFailed>>
    /\ UNCHANGED <<leVars, crVars>>

\* The key copies there are in the temporary directory.
Copies == {k \in Keys : keyModes[k] # 0}

\* setup_ssh_keys, lines 533-546: on an exception the key copies and the
\* temporary directory are removed (one try around all removals: the first
\* failure ends them), then the exception goes on to main's handlers.
ss_except ==
    /\ ghPc = "ss_except"
    /\ IF tempDirMode = 0
         THEN UNCHANGED <<keyModes, tempDirMode, ghRmFailed>>
         ELSE \E removed \in SUBSET Copies :
                /\ \A k \in removed : \A j \in Copies : j < k => j \in removed
                /\ keyModes' = [k \in Keys |-> IF k \in removed THEN 0 ELSE keyModes[k]]
                /\ IF removed = Copies
                     THEN \/ tempDirMode' = 0 /\ UNCHANGED ghRmFailed
                          \/ ghRmFailed' = TRUE /\ UNCHANGED tempDirMode
                     ELSE ghRmFailed' = TRUE /\ UNCHANGED tempDirMode
    /\ ReturnFromTry(ExitCodeFor(ghExc))
    /\ ghExc' = "none"
    /\ UNCHANGED <<strict_host_checking, private_keys, sshDirMode, sshConfig,
                   configBackups, backedUp, temp_ssh_dir, ghLocals>>
    /\ UNCHANGED <<leVars, crVars>>

\* Mutant of gh_known_hosts: the failure is ignored under strict checking too.
gh_known_hosts_lenient ==
    /\ ghPc = "step3"
    /\ \E ok \in (IF strict_host_checking THEN BOOLEAN ELSE {TRUE}) :
         host_key_success' = IF ok THEN "True" ELSE "False"
    /\ ghPc' = "step4"
    /\ UNCHANGED ghOut
    /\ UNCHANGED <<strict_host_checking, private_keys, ghFs, temp_ssh_dir, ghExc,
                   connection_successful, direct_ssh_works, ghRmFailed>>
    /\ UNCHANGED <<leVars, crVars>>

\* main, lines 1350-1355, and add_github_to_known_hosts, which returns True
\* at once when strict_host_checking is false (lines 560-562) and True or
\* False otherwise.
gh_known_hosts ==
    /\ ghPc = "step3"
    /\ \E ok \in (IF strict_host_checking THEN BOOLEAN ELSE {TRUE}) :
         /\ host_key_success' = IF ok THEN "True" ELSE "False"
         /\ IF ~ok /\ strict_host_checking
              THEN ReturnFromTry(EXIT_SSH_CONFIG_ERROR)
              ELSE ghPc' = "step4" /\ UNCHANGED ghOut
    /\ UNCHANGED <<strict_host_checking, private_keys, ghFs, temp_ssh_dir, ghExc,
                   connection_successful, direct_ssh_works, ghRmFailed>>
    /\ UNCHANGED <<leVars, crVars>>

\* main, lines 1357-1377: test_github_connection, then verify_ssh_works as
\* a fallback (its os.environ.copy() at line 1273 is outside its try: an
\* exception there reaches main's `except Exception`).
gh_test_connection ==
    /\ ghPc = "step4"
    /\ \/ /\ connection_successful' = "True"
          /\ ghPc' = "step5"
          /\ UNCHANGED <<direct_ssh_works, ghOut>>
       \/ /\ connection_successful' = "False"
          /\ \/ /\ direct_ssh_works' = "True"
                /\ ghPc' = "step5"
                /\ UNCHANGED ghOut
             \/ /\ direct_ssh_works' = "False"
                /\ IF strict_host_checking
                     THEN ReturnFromTry(EXIT_GITHUB_CONNECTION_ERROR)
                     ELSE ghPc' = "step5" /\ UNCHANGED ghOut
             \/ /\ direct_ssh_works' = "raised"
                /\ ReturnFromTry(ExitCodeFor("Exception"))
    /\ UNCHANGED <<strict_host_checking, private_keys, ghFs, temp_ssh_dir, ghExc,
                   host_key_success, ghRmFailed>>
    /\ UNCHANGED <<leVars, crVars>>

\* The steps of one clone_repository call.
RunSteps ==
    \/ clone_repository
    \/ cr_parent_dir
    \/ cr_skip_clone
    \/ cr_dispatch
    \/ check_git_repo_health
    \/ cr_check_remote
    \/ u_fetch_all
    \/ u_current_branch
    \/ u_verify_branch
    \/ u_pull
    \/ u_reset
    \/ fc_prepare
    \/ fc_init
    \/ fc_remote
    \/ fc_fetch
    \/ fc_sleep
    \/ fc_default_branch
    \/ fc_checkout
    \/ fc_verify

\* main, lines 1379-1387: the call of clone_repository, step by step.
gh_clone_step ==
    /\ ghPc = "step5"
    /\ RunSteps

\* Mutant of gh_clone_result: the result of clone_repository is not looked at.
gh_clone_result_ignored ==
    /\ ghPc = "step5"
    /\ crPc = "done"
    /\ ReturnFromTry(EXIT_SUCCESS)
    /\ UNCHANGED <<strict_host_checking, private_keys, ghFs, temp_ssh_dir, ghExc,
                   ghLocals, ghRmFailed>>
    /\ UNCHANGED <<leVars, crVars>>

\* main, lines 1389-1398: clone_repository has returned.
gh_clone_result ==
    /\ ghPc = "step5"
    /\ crPc = "done"
    /\ ReturnFromTry(IF crResult = "True" THEN EXIT_SUCCESS ELSE EXIT_GIT_CLONE_ERROR)
    /\ UNCHANGED <<strict_host_checking, private_keys, ghFs, temp_ssh_dir, ghExc,
                   ghLocals, ghRmFailed>>
    /\ UNCHANGED <<leVars, crVars>>

\* Mutant of gh_finally: the temporary directory is cleaned up only after a
\* successful clone.
gh_finally_cleanup_on_success ==
    /\ ghPc = "finally"
    /\ IF temp_ssh_dir = "set" /\ tempDirMode # 0 /\ ghPending = EXIT_SUCCESS
         THEN /\ keyModes' = [k \in Keys |-> 0]
              /\ tempDirMode' = 0
         ELSE UNCHANGED <<keyModes, tempDirMode>>
    /\ configBackups' = {}
    /\ ghRet' = ghPending
    /\ ghExit' = ghPending
    /\ ghPc' = "returned"
    /\ UNCHANGED <<strict_host_checking, private_keys, sshDirMode, sshConfig,
                   backedUp, temp_ssh_dir, ghExc, ghLocals, ghPending, ghRmFailed>>
    /\ UNCHANGED <<leVars, crVars>>

\* main, lines 1415-1441 and 1451: the finally block removes every file in
\* the temporary key directory (each in its own try), then the directory,
\* then every ~/.ssh/config.bak.* file; ~/.ssh/config itself is not
\* touched.  Then main returns and sys.exit passes the code on.
gh_finally ==
    /\ ghPc = "finally"
    /\ \E keep \in SUBSET configBackups, rmdirOk \in BOOLEAN :
         /\ configBackups' = keep
         /\ IF temp_ssh_dir = "set" /\ tempDirMode # 0
              THEN \E stay \in SUBSET Copies :
                     /\ keyModes' = [k \in Keys |-> IF k \in stay THEN keyModes[k] ELSE 0]
                     /\ tempDirMode' = IF stay = {} /\ rmdirOk THEN 0 ELSE tempDirMode
                     /\ ghRmFailed' = (ghRmFailed \/ stay # {} \/ ~rmdirOk \/ keep # {})
              ELSE /\ rmdirOk
                   /\ UNCHANGED <<keyModes, tempDirMode>>
                   /\ ghRmFailed' = (ghRmFailed \/ keep # {})
    /\ ghRet' = ghPending
    /\ ghExit' = ghPending
    /\ ghPc' = "returned"
    /\ UNCHANGED <<strict_host_checking, private_keys, sshDirMode, sshConfig,
                   backedUp, temp_ssh_dir, ghExc, ghLocals, ghPending>>
    /\ UNCHANGED <<leVars, crVars>>

\* The steps of find_ssh_keys and setup_ssh_keys.
NextSetup ==
    \/ gh_parse_arguments
    \/ gh_find_ssh_keys
    \/ ensure_ssh_directory
    \/ ss_make_temp
    \/ ss_copy_key
    \/ ss_config
    \/ ss_except

NextGH ==
    \/ NextSetup
    \/ gh_known_hosts
    \/ gh_test_connection
    \/ gh_clone_step
    \/ gh_clone_result
    \/ gh_finally

(***************************************************************************)
(* Specifications                                                          *)
(***************************************************************************)

\* main of letsencrypt_wildcard_setup.py runs; clone_repository does not.
InitLE ==
    /\ LEStart
    /\ NoRun
    /\ max_backups = 0
    /\ parentExists = TRUE
    /\ destKind = "absent" /\ destGit = FALSE /\ destRemotes = "none"
    /\ startKind = "absent" /\ startGit = FALSE
    /\ startRemotes = "none" /\ startParent = TRUE
    /\ GHIdle
    /\ sshDirMode = ModeDirOwnerOnly /\ sshConfig = "absent"

SpecLE == InitLE /\ [][NextLE]_vars

\* clone_repository runs, up to MaxRuns times; letsencrypt's main does not.
InitClone ==
    /\ CloneStart
    /\ LEStart
    /\ leRoot = FALSE /\ leCredsMode = 0
    /\ leSkipCert = FALSE /\ leCertFiles = FALSE
    /\ GHIdle
    /\ sshDirMode = ModeDirOwnerOnly /\ sshConfig = "absent"

SpecClone == InitClone /\ [][NextClone]_vars

\* main of github_repo_clone.py runs once (with --max-backups
\* MaxBackupsArg), clone_repository inside it; letsencrypt's main does not.
InitGH ==
    /\ GHStart
    /\ CloneStart
    /\ max_backups = MaxBackupsArg
    /\ LEStart
    /\ leRoot = FALSE /\ leCredsMode = 0
    /\ leSkipCert = FALSE /\ leCertFiles = FALSE

SpecGH == InitGH /\ [][NextGH]_vars

\* The two scripts' handling of secret files: main of
\* letsencrypt_wildcard_setup.py, and main of github_repo_clone.py up to the
\* return of setup_ssh_keys.
InitSecrets ==
    /\ LEStart
    /\ GHStart
    /\ NoRun
    /\ max_backups = 0
    /\ parentExists = TRUE
    /\ destKind = "absent" /\ destGit = FALSE /\ destRemotes = "none"
    /\ startKind = "absent" /\ startGit = FALSE
    /\ startRemotes = "none" /\ startParent = TRUE

NextSecrets == NextLE \/ NextSetup

SpecSecrets == InitSecrets /\ [][NextSecrets]_vars

(***************************************************************************)
(* Claims about letsencrypt_wildcard_setup.main                            *)
(***************************************************************************)

\* C1: main starts the six phases only in list order, starts a phase only
\* after every earlier phase has returned True, and starts no phase after
\* one that returned False (or raised).
C1_PhasesInOrderUntilFailure ==
    /\ Len(leStarted) <= NumPhases
    /\ \A i \in 1..Len(leStarted) :
         /\ leStarted[i] = phases[i]
         /\ \A j \in 1..(i - 1) : leRet[j] = "True"
    /\ \A j \in 1..NumPhases :
         leRet[j] \in {"False", "raised"} => Len(leStarted) = j

\* C1 witness: the third phase returned False after two phases succeeded,
\* and main has finished without starting a fourth.
C1_Witness ==
    /\ lePc = "exited"
    /\ leRet[1] = "True" /\ leRet[2] = "True" /\ leRet[3] = "False"
    /\ leStarted = <<"update_system", "configure_cloudflare_credentials",
                     "generate_certificate">>

AllPhasesTrue == \A i \in 1..NumPhases : leRet[i] = "True"

C13_NonRootReturnsFalse ==
    (lePc = "exited" /\ ~leRoot) =>
        /\ leResult = "False"
        /\ leStarted = <<>>
        /\ leCmds = {}
        /\ leWritten = {}

(***************************************************************************)
(* Claims about clone_repository and _fresh_clone                          *)
(***************************************************************************)

InRun == crPc # "idle"
Done == crPc = "done"

\* The git commands of _fresh_clone.
FreshCloneCmds == {"init", "remote", "remote add", "remote set-url", "fetch --all",
                   "remote show origin", "checkout -b", "checkout", "pull",
                   "checkout -f"}

\* The git commands clone_repository runs on an existing repository: the
\* health check, the remote comparison and the update.
ExistingRepoCmds == {"status", "remote -v", "fetch origin", "fetch --all --tags",
                     "branch --show-current", "symbolic-ref", "rev-parse",
                     "pull --ff-only", "reset --hard"}

\* The commands that bring commits from a remote into the repository they
\* run in.
FetchingCmds == {"fetch origin", "fetch --all --tags", "fetch --all",
                 "pull --ff-only", "pull"}

\* C3: dest_dir absent, force_clone false, SKIP_CLONE unset.  The run takes
\* the fresh-clone path (the only git commands it runs are _fresh_clone's,
\* and it ends without calling _fresh_clone only when the missing parent
\* directory could not be created), creates no backup or _old directory,
\* and when git init, remote add, fetch and checkout have all run and every
\* git command exited 0 it returns True, leaving a repository whose origin
\* is repo_url.
C3_AbsentDestFreshClone ==
    (InRun /\ startKind = "absent" /\ ~force_clone /\ ~SKIP_CLONE) =>
        /\ ran \subseteq FreshCloneCmds
        /\ freshFrom \in {"none", "dispatch"}
        /\ movedThisRun = {}
        /\ (Done => freshFrom = "dispatch" \/ ~parentExists)
        /\ (Done /\ ~gitFailed /\ "checkout -b" \in ran) =>
              /\ crResult = "True"
              /\ {"init", "remote add", "fetch --all", "checkout -b"} \subseteq ran
              /\ destGit /\ destRemotes = "url"
        /\ (Done /\ crResult = "True") =>
              /\ {"init", "remote add", "fetch --all"} \subseteq ran
              /\ destGit /\ destRemotes = "url"

\* C3 witness: such a run in which every git command succeeded has returned True.
C3_Witness ==
    /\ Done /\ startKind = "absent" /\ ~force_clone /\ ~SKIP_CLONE
    /\ ~gitFailed /\ "checkout -b" \in ran
    /\ crResult = "True" /\ displaced = {}

\* C4: dest_dir holds a repository whose remote is repo_url, force_clone and
\* skip_pull false.  A run that succeeds in place has gone through
\* git pull --ff-only, nothing is moved or re-cloned before the pull, and
\* when the pull succeeds the run returns True at once: dest_dir is not
\* moved, no backup or _old directory is created, _fresh_clone is not called.
C4_MatchingRemotePulls ==
    (InRun /\ startGit /\ startRemotes = "url" /\ ~force_clone /\ ~skip_pull) =>
        /\ pull_rc = "ok" =>
              /\ Done /\ crResult = "True"
              /\ movedThisRun = {} /\ freshFrom = "none"
              /\ reset_code = "none"
              /\ ran \cap {"init", "remote add", "remote set-url", "fetch --all",
                          "checkout -b"} = {}
              /\ destKind = "nonempty" /\ destGit /\ destRemotes = "url"
        /\ (pull_rc = "none" /\ freshFrom = "none") => movedThisRun = {}
        /\ (Done /\ crResult = "True" /\ ~SKIP_CLONE /\ freshFrom = "none") =>
              "pull --ff-only" \in ran

\* C4 witness: the pull succeeded and the run has returned.
C4_Witness ==
    /\ Done /\ startGit /\ startRemotes = "url" /\ ~force_clone /\ ~skip_pull
    /\ ~SKIP_CLONE
    /\ pull_rc = "ok" /\ crResult = "True"

\* C5 (as claimed): dest_dir holds a repository none of whose remotes has
\* the URL repo_url, force_clone false.  Nothing is fetched or pulled into
\* that repository, and a run that reports success has moved it to a
\* _backup_ directory and cloned repo_url afresh.
C5_MismatchBackedUpNeverUpdated ==
    (InRun /\ startGit /\ startRemotes # "url" /\ ~force_clone /\ ~SKIP_CLONE) =>
        /\ movedThisRun = {} => ran \cap FetchingCmds = {}
        /\ (Done /\ crResult = "True") =>
              /\ freshFrom = "mismatch"
              /\ \E d \in movedThisRun : d.kind = "backup"
              /\ destRemotes = "url"

\* C6 (as claimed): a second run with the same flags after a run that
\* returned True, nothing else having touched dest_dir and every git command
\* and filesystem call succeeding, returns True, creates no backup or _old
\* directory and does not re-clone.
C6_RerunIdempotent ==
    (Done /\ rerun /\ ~gitFailed /\ ~osFailed) =>
        /\ crResult = "True"
        /\ movedThisRun = {}
        /\ freshFrom = "none"

\* C6 (amended): the same, for runs without force_clone.
C6_RerunIdempotentUnlessForced ==
    (Done /\ rerun /\ ~gitFailed /\ ~osFailed /\ ~force_clone) =>
        /\ crResult = "True"
        /\ movedThisRun = {}
        /\ freshFrom = "none"

\* C6 witness: a second run without force_clone after a successful first
\* one has pulled and returned.
C6_Witness ==
    /\ Done /\ rerun /\ ~gitFailed /\ ~force_clone /\ ~SKIP_CLONE /\ ~skip_pull
    /\ pull_rc = "ok" /\ crResult = "True" /\ runs = 2

\* C7 (as claimed): with max_backups = n > 0 and no directory removal (nor
\* any other filesystem call) having failed, at most n displaced copies of dest_dir (_backup_ and _old_
\* directories together) exist whenever a run returns.
C7_DisplacedCopiesBounded ==
    (Done /\ max_backups > 0 /\ ~osFailed) => Cardinality(displaced) <= max_backups

\* A fetch attempt that failed in one of the three ways.
FetchFailed == fetch_rc \in {"nonzero", "exception", "timeout"}

\* C8 (as claimed): at most MAX_RETRIES fetch attempts; a failed attempt
\* (non-zero exit, exception or timeout) is followed by a wait and another
\* attempt unless it was the last; _fresh_clone goes on to the checkout only
\* after a successful attempt; no wait after the last attempt; when all
\* attempts fail it returns False without a checkout.
C8_FetchRetry ==
    /\ attempt <= MAX_RETRIES
    /\ sleeps < MAX_RETRIES
    /\ crPc = "fc_sleep" => (FetchFailed /\ attempt < MAX_RETRIES /\ sleeps = attempt - 1)
    /\ (crPc = "fc_fetch" /\ attempt > 0) => (FetchFailed /\ sleeps = attempt)
    /\ crPc \in {"fc_branch", "fc_checkout", "fc_verify"} =>
          (fetch_rc = "ok" /\ sleeps = attempt - 1)
    /\ (Done /\ FetchFailed) =>
          /\ attempt = MAX_RETRIES
          /\ sleeps = MAX_RETRIES - 1
          /\ crResult = "False"
          /\ "checkout -b" \notin ran

\* C9: force_clone true, SKIP_CLONE unset.  The run never runs the health
\* check, the remote comparison, a pull or a reset; whatever dest_dir holds
\* (and, when dest_dir is absent, once its parent directory is there) the run
\* goes through _fresh_clone, called from the dispatch at lines 981-983; and
\* git init runs only with dest_dir absent or empty, a non-empty dest_dir
\* having been moved to an _old_ directory first.
C9_ForceCloneAlwaysFresh ==
    (InRun /\ force_clone /\ ~SKIP_CLONE) =>
        /\ ran \cap ExistingRepoCmds = {}
        /\ pull_rc = "none" /\ reset_code = "none"
        /\ freshFrom \in {"none", "dispatch"}
        /\ (Done /\ startKind # "absent") => freshFrom = "dispatch"
        /\ (Done /\ parentExists) => freshFrom = "dispatch"
        /\ crPc = "fc_init" => destKind \in {"absent", "empty"}
        /\ ("init" \in ran /\ startKind = "nonempty") =>
              /\ movedThisRun # {}
              /\ \A d \in movedThisRun : d.kind = "old" /\ d \in displaced

\* C9 witness: a forced run on an existing repository has moved it aside,
\* cloned afresh and returned True.
C9_Witness ==
    /\ Done /\ force_clone /\ ~SKIP_CLONE
    /\ startGit /\ startRemotes = "url"
    /\ \E d \in movedThisRun : d.kind = "old"
    /\ crResult = "True"

\* C10 (as claimed): skip_pull true, force_clone false, dest_dir a
\* repository whose remote is repo_url.  The run returns True, and no git
\* fetch, pull, reset or checkout is run in it.
C10_SkipPullTouchesNothing ==
    (InRun /\ skip_pull /\ ~force_clone /\ startGit /\ startRemotes = "url") =>
        /\ ran \cap (FetchingCmds \cup {"reset --hard", "checkout", "checkout -b",
                                       "checkout -f"}) = {}
        /\ Done => crResult = "True"

\* C17 (as claimed): a run_command call with check=True gives control back
\* to its caller only with return code 0.  fetch_rc is the outcome of the
\* last run_command(["git", "fetch", "--all"], check=True) of _fresh_clone,
\* and _fresh_clone is past its fetch loop exactly when that call returned.
C17_CheckedCallReturnsZero ==
    crPc \in {"fc_branch", "fc_checkout", "fc_verify"} =>
        /\ ~run_command_raises(TRUE, fetch_rc)
        /\ run_command_returncode(fetch_rc) = 0

\* The order of the update cascade, as a state predicate.
C18_Order ==
    /\ "reset --hard" \in ran => pull_rc = "failed"
    /\ reset_code # "none" => pull_rc = "failed"
    /\ freshFrom = "reset_failed" => (pull_rc = "failed" /\ reset_code = "failed")
    /\ pull_rc = "ok" => (Done /\ crResult = "True" /\ freshFrom = "none")
    /\ reset_code = "ok" => (Done /\ crResult = "True" /\ freshFrom = "none")
    /\ (pull_rc = "failed" /\ reset_code = "none") => crPc = "u_reset"

\* The preliminary git fetch --all of the update path, whatever its exit
\* status, is followed by the branch detection: nothing is returned, moved
\* or re-cloned by that step.
C18_FetchStep ==
    crPc = "u_fetch" =>
        /\ crPc' = "u_branch"
        /\ UNCHANGED <<crResult, freshFrom, movedThisRun, fsVars>>

\* C18: git reset --hard runs only after git pull --ff-only has failed;
\* _fresh_clone is called from the update path only after that reset has
\* failed too; True is returned as soon as the pull or the reset succeeds;
\* and a failure of the preliminary git fetch --all neither ends the update
\* nor leads to a re-clone.
C18_UpdateCascade == []C18_Order /\ [][C18_FetchStep]_vars

\* C18 witness: the preliminary fetch and the pull failed, the reset
\* succeeded, and the run returned True without a re-clone.
C18_Witness ==
    /\ Done /\ pull_rc = "failed" /\ reset_code = "ok"
    /\ crResult = "True" /\ freshFrom = "none"
    /\ "fetch --all --tags" \in ran /\ gitFailed

(***************************************************************************)
(* Claims about github_repo_clone.main and setup_ssh_keys                  *)
(***************************************************************************)

\* clone_repository has been called in this run of main.
CloneCalled == runs > 0

\* C11: with strict_host_checking true, main returns EXIT_SSH_CONFIG_ERROR
\* when add_github_to_known_hosts returned False and
\* EXIT_GITHUB_CONNECTION_ERROR when test_github_connection and
\* verify_ssh_works both returned False, and clone_repository is not called
\* in either case; with strict_host_checking false add_github_to_known_hosts
\* does not return False, and after both connection tests returned False
\* main goes on to the clone_repository call and does not return before it.
C11_StrictAborts ==
    /\ (strict_host_checking /\ host_key_success = "False") =>
          /\ ghPc \in {"finally", "returned"}
          /\ ghPending = EXIT_SSH_CONFIG_ERROR
          /\ ghPc = "returned" => ghRet = EXIT_SSH_CONFIG_ERROR
          /\ ~CloneCalled /\ crPc = "idle"
    /\ (strict_host_checking /\ connection_successful = "False"
                             /\ direct_ssh_works = "False") =>
          /\ ghPc \in {"finally", "returned"}
          /\ ghPending = EXIT_GITHUB_CONNECTION_ERROR
          /\ ghPc = "returned" => ghRet = EXIT_GITHUB_CONNECTION_ERROR
          /\ ~CloneCalled /\ crPc = "idle"
    /\ (~strict_host_checking /\ ghPc # "start") => host_key_success # "False"
    /\ (~strict_host_checking /\ connection_successful = "False"
                              /\ direct_ssh_works = "False") =>
          /\ ghPc \in {"step5", "finally", "returned"}
          /\ ghPc \in {"finally", "returned"} => CloneCalled
          /\ ghPending \in {-1, EXIT_SUCCESS, EXIT_GIT_CLONE_ERROR}

\* C11 witness: a strict run in which add_github_to_known_hosts returned
\* False has returned 3 without calling clone_repository.
C11_Witness ==
    /\ ghPc = "returned" /\ strict_host_checking
    /\ host_key_success = "False"
    /\ ghRet = EXIT_SSH_CONFIG_ERROR /\ ~CloneCalled

C14_SecretFileModes ==
    /\ (ghPc = "step3" /\ temp_ssh_dir = "set") =>
          /\ sshDirMode = ModeDirOwnerOnly
          /\ tempDirMode = ModeDirOwnerOnly
          /\ \A k \in private_keys : keyModes[k] = ModeOwnerOnly
          /\ \A k \in Keys \ private_keys : keyModes[k] = 0
    /\ leRet[2] = "True" =>
          /\ leCredsMode = ModeOwnerOnly
          /\ "credentials.ini" \in leWritten

\* C14 witness: setup_ssh_keys has returned with every key copied, and
\* configure_cloudflare_credentials has returned True.
C14_Witness ==
    /\ ghPc = "step3" /\ temp_ssh_dir = "set"
    /\ private_keys = Keys
    /\ \A k \in Keys : keyModes[k] = ModeOwnerOnly
    /\ leRet[2] = "True" /\ leCredsMode = ModeOwnerOnly

\* C15 (as claimed): when main has returned and setup_ssh_keys had backed up
\* the ~/.ssh/config it found, ~/.ssh/config has the backed-up content again.
C15_ConfigRestored ==
    (ghPc = "returned" /\ backedUp # "none") => sshConfig = backedUp

\* C16: no removal having failed, when main has returned after
\* setup_ssh_keys returned a temporary key directory, that directory and
\* every key copy are gone; and when setup_ssh_keys has raised, the
\* directory and the key copies it made are gone by the time the exception
\* is in main's hands.
C16_TempKeysRemoved ==
    /\ (ghPc = "returned" /\ temp_ssh_dir = "set" /\ ~ghRmFailed) =>
          (tempDirMode = 0 /\ Copies = {})
    /\ (ghPc \in {"finally", "returned"} /\ temp_ssh_dir = "None" /\ ~ghRmFailed) =>
          (tempDirMode = 0 /\ Copies = {})

\* C16 witness: main has returned EXIT_GIT_CLONE_ERROR after a run in which
\* setup_ssh_keys had copied every key, and the copies and the directory
\* are gone.
C16_Witness ==
    /\ ghPc = "returned" /\ temp_ssh_dir = "set" /\ ~ghRmFailed
    /\ private_keys = Keys
    /\ ghRet = EXIT_GIT_CLONE_ERROR
    /\ tempDirMode = 0 /\ Copies = {}

====
